---- MODULE Spec2Model ----
\* Consensus ordering of global state (WitnessAnchor, GlobalOrd) and the
\* GlobalContractState accessor over a GlobalStateIter cursor,
\* src/vm/contract.rs.
EXTENDS Integers, Sequences, FiniteSets, TLC

VARIABLES
    records,          \* the cursor's history, newest first: Seq([ord, val])
    reported,         \* what the cursor's size() answers
    overflow_checks,  \* build profile: TRUE = arithmetic overflow panics, FALSE = wraps
    cur,              \* cursor position: 0 = fresh, k = on the record k-1 steps back
    phase,            \* "new" before GlobalContractState::from, "ready" after
    checked_depth,    \* GlobalContractState.checked_depth
    last_ord,         \* GlobalContractState.last_ord
    depth_arg,        \* argument of the latest nth call (-1: none yet)
    out,              \* outcome of the latest nth call
    calls,            \* cursor calls made by the latest operation, in order
    prev_out,         \* outcome of the nth call before the latest one
    walk,             \* k when the nth calls so far were exactly nth(0..k-1), else -1
    ascending,        \* the nth calls so far had strictly increasing depths
    faulted,          \* some operation of this accessor has panicked
    validated,        \* records read through prev() and accepted so far
    size_out,         \* answer of the latest GlobalContractState::size call (-1: none yet)
    ord_in,           \* ordering harness: the GlobalOrd triple under comparison
    ord_out           \* ordering harness: the comparison results

vars == <<records, reported, overflow_checks, cur, phase, checked_depth, last_ord,
          depth_arg, out, calls, prev_out, walk, ascending, faulted, validated,
          size_out, ord_in, ord_out>>

\* ---------------------------------------------------------------- bounds
MaxLen == 3      \* longest history a cursor holds
MaxExtra == 1    \* how many records more than it holds a cursor may report
MaxRank == 1     \* WitnessOrd values 0..MaxRank
MaxId == 1       \* XWitnessId values 0..MaxId
MaxIdx == 1      \* idx values 0..MaxIdx

\* ---------------------------------------------------------------- ordering
\* std::cmp::Ordering of two integers (WitnessOrd, XWitnessId, u16 are
\* compared by their derived total orders).
IntCmp(x, y) == IF x < y THEN "Less" ELSE IF x > y THEN "Greater" ELSE "Equal"

\* Option<WitnessAnchor>: some = FALSE is None.
NoAnchor == [some |-> FALSE, witness_ord |-> 0, witness_id |-> 0]

SomeAnchor(a) == [some |-> TRUE, witness_ord |-> a.witness_ord, witness_id |-> a.witness_id]

WitnessAnchor(r, w) == [witness_ord |-> r, witness_id |-> w]

WitnessAnchorCmpIdFirst(a, b) ==
    IF a = b THEN "Equal"
    ELSE LET c == IntCmp(a.witness_id, b.witness_id)
         IN  IF c = "Less" THEN "Less"
             ELSE IF c = "Greater" THEN "Greater"
             ELSE IntCmp(a.witness_ord, b.witness_ord)

WitnessAnchorCmp(a, b) ==
    IF a = b THEN "Equal"
    ELSE LET c == IntCmp(a.witness_ord, b.witness_ord)
         IN  IF c = "Less" THEN "Less"
             ELSE IF c = "Greater" THEN "Greater"
             ELSE IntCmp(a.witness_id, b.witness_id)

with_anchor(ord_txid, idx) == [witness_anchor |-> SomeAnchor(ord_txid), idx |-> idx]

genesis(idx) == [witness_anchor |-> NoAnchor, idx |-> idx]

AnchorOf(o) == WitnessAnchor(o.witness_anchor.witness_ord, o.witness_anchor.witness_id)

GlobalOrdCmpNoneSomeGreater(a, b) ==
    IF a = b THEN "Equal"
    ELSE IF ~a.witness_anchor.some /\ ~b.witness_anchor.some THEN IntCmp(a.idx, b.idx)
    ELSE IF ~a.witness_anchor.some THEN "Greater"
    ELSE IF ~b.witness_anchor.some THEN "Less"
    ELSE IF AnchorOf(a) = AnchorOf(b) THEN IntCmp(a.idx, b.idx)
    ELSE WitnessAnchorCmp(AnchorOf(a), AnchorOf(b))

GlobalOrdCmpIdxFirst(a, b) ==
    IF a = b THEN "Equal"
    ELSE IF ~a.witness_anchor.some /\ ~b.witness_anchor.some THEN IntCmp(a.idx, b.idx)
    ELSE IF ~a.witness_anchor.some THEN "Less"
    ELSE IF ~b.witness_anchor.some THEN "Greater"
    ELSE IF a.idx # b.idx THEN IntCmp(a.idx, b.idx)
    ELSE WitnessAnchorCmp(AnchorOf(a), AnchorOf(b))

GlobalOrdCmpIdxSwapped(a, b) ==
    IF a = b THEN "Equal"
    ELSE IF ~a.witness_anchor.some /\ ~b.witness_anchor.some THEN IntCmp(b.idx, a.idx)
    ELSE IF ~a.witness_anchor.some THEN "Less"
    ELSE IF ~b.witness_anchor.some THEN "Greater"
    ELSE IF AnchorOf(a) = AnchorOf(b) THEN IntCmp(b.idx, a.idx)
    ELSE WitnessAnchorCmp(AnchorOf(a), AnchorOf(b))

GlobalOrdCmpNoSameAnchorArm(a, b) ==
    IF a = b THEN "Equal"
    ELSE IF ~a.witness_anchor.some /\ ~b.witness_anchor.some THEN IntCmp(a.idx, b.idx)
    ELSE IF ~a.witness_anchor.some THEN "Less"
    ELSE IF ~b.witness_anchor.some THEN "Greater"
    ELSE WitnessAnchorCmp(AnchorOf(a), AnchorOf(b))

GlobalOrdCmp(a, b) ==
    IF a = b THEN "Equal"
    ELSE IF ~a.witness_anchor.some /\ ~b.witness_anchor.some THEN IntCmp(a.idx, b.idx)
    ELSE IF ~a.witness_anchor.some THEN "Less"
    ELSE IF ~b.witness_anchor.some THEN "Greater"
    ELSE IF AnchorOf(a) = AnchorOf(b) THEN IntCmp(a.idx, b.idx)
    ELSE WitnessAnchorCmp(AnchorOf(a), AnchorOf(b))

\* ---------------------------------------------------------------- cursor
\* The records of the example history: r0 = genesis(0), r1 = with_anchor(A, 0),
\* r2 = with_anchor(A, 1), r3 = with_anchor(B, 0), A on-chain at 100 and B at 200.
ExampleOrds ==
    { genesis(0), with_anchor(WitnessAnchor(100, 1), 0),
      with_anchor(WitnessAnchor(100, 1), 1), with_anchor(WitnessAnchor(200, 2), 0) }

\* Option<(GlobalOrd, DataState)>: some = FALSE is None.
NoItem == [some |-> FALSE, ord |-> genesis(0), val |-> 0]

SomeItem(r) == [some |-> TRUE, ord |-> r.ord, val |-> r.val]

\* GlobalStateIter::size
CursorSize == reported

\* GlobalStateIter::reset(depth): the next last() yields the record `depth`
\* steps back from the newest.
CursorReset(depth) == depth + 1

\* GlobalStateIter::prev at position c: the next-older record, the cursor
\* moved one step older; nothing once the oldest record has been passed.
CursorPrev(c) ==
    IF c < Len(records)
    THEN [cur |-> c + 1, item |-> SomeItem(records[c + 1])]
    ELSE [cur |-> IF c = Len(records) THEN c + 1 ELSE c, item |-> NoItem]

\* GlobalStateIter::last at position c: the record under the cursor.
CursorLast(c) ==
    IF c >= 1 /\ c <= Len(records) THEN SomeItem(records[c]) ELSE NoItem

CallOf(op, arg) == [op |-> op, arg |-> arg]

\* ---------------------------------------------------------------- u32
\* A u32 kept as two 16-bit limbs.
Limb == 65536

ToU32(n) == [hi |-> (n \div Limb) % Limb, lo |-> n % Limb]

LessU32(x, y) == x.hi < y.hi \/ (x.hi = y.hi /\ x.lo < y.lo)

\* (a - b) mod 2^32
WrappingSub(a, b) ==
    IF a >= b THEN ToU32(a - b)
    ELSE LET k == b - a
             borrow == IF k % Limb = 0 THEN 0 ELSE 1
         IN  [hi |-> (Limb - ((k \div Limb) % Limb) - borrow) % Limb,
              lo |-> (Limb - (k % Limb)) % Limb]

\* ---------------------------------------------------------------- accessor
Idle == [kind |-> "idle", val |-> 0, ord |-> genesis(0), fault |-> ""]

Absent == [kind |-> "none", val |-> 0, ord |-> genesis(0), fault |-> ""]

Fault(why) == [kind |-> "fault", val |-> 0, ord |-> genesis(0), fault |-> why]

Value(item) == [kind |-> "value", val |-> item.val, ord |-> item.ord, fault |-> ""]

\* unwrap_or of from: the order recorded for an empty history
DefaultOrdIdxOne == genesis(1)

DefaultOrd == genesis(0)

\* from without its reset(0)
FromRunNoReset(c) ==
    LET p == CursorPrev(c)
    IN  [checked_depth |-> 1,
         last_ord |-> IF p.item.some THEN p.item.ord ELSE DefaultOrd,
         cur |-> p.cur,
         calls |-> <<CallOf("prev", 0)>>,
         steps |-> IF p.item.some THEN 1 ELSE 0]

\* from starting checked_depth at 0
FromRunCheckedDepthZero(c) ==
    LET p == CursorPrev(c)
    IN  [checked_depth |-> 0,
         last_ord |-> IF p.item.some THEN p.item.ord ELSE DefaultOrd,
         cur |-> CursorReset(0),
         calls |-> <<CallOf("prev", 0), CallOf("reset", 0)>>,
         steps |-> IF p.item.some THEN 1 ELSE 0]

\* GlobalContractState::from on a cursor at position c
FromRun(c) ==
    LET p == CursorPrev(c)
    IN  [checked_depth |-> 1,
         last_ord |-> IF p.item.some THEN p.item.ord ELSE DefaultOrd,
         cur |-> CursorReset(0),
         calls |-> <<CallOf("prev", 0), CallOf("reset", 0)>>,
         steps |-> IF p.item.some THEN 1 ELSE 0]

\* nth, first test: depth >= self.iter.size()
OutOfRangeStrict(depth) == depth > CursorSize

OutOfRange(depth) == depth >= CursorSize

\* nth, second test: depth >= self.checked_depth
TakesJump(cd, depth) == depth >= cd

\* the end of the range 0..(depth - self.checked_depth)
RangeEnd(cd, depth) == WrappingSub(depth, cd)

\* whether computing depth - self.checked_depth panics (overflow checks on)
SubOverflows(cd, depth) == overflow_checks /\ depth < cd

\* the ordering test of the loop with the comparison turned around
OrderViolatedInverted(ord, lo) == GlobalOrdCmp(ord, lo) # "Greater"

\* the ordering test of the loop: ord >= self.last_ord
OrderViolated(ord, lo) == GlobalOrdCmp(ord, lo) # "Less"

\* the loop of nth from iteration inc on: prev(), the two checks, last_ord;
\* steps counts the records accepted.
RECURSIVE WalkFrom(_, _, _, _, _)
WalkFrom(c, lo, inc, end, cs) ==
    IF ~LessU32(ToU32(inc), end)
    THEN [cur |-> c, last_ord |-> lo, fault |-> "", calls |-> cs, steps |-> inc]
    ELSE LET p == CursorPrev(c)
             cs1 == Append(cs, CallOf("prev", 0))
         IN  IF ~p.item.some
             THEN [cur |-> p.cur, last_ord |-> lo, fault |-> "overreport",
                   calls |-> cs1, steps |-> inc]
             ELSE IF OrderViolated(p.item.ord, lo)
             THEN [cur |-> p.cur, last_ord |-> lo, fault |-> "order",
                   calls |-> cs1, steps |-> inc]
             ELSE WalkFrom(p.cur, p.item.ord, inc + 1, end, cs1)

\* the tail of nth: self.iter.last().map(|(_, item)| item)
NthLast(cd, lo, c, cs) ==
    LET item == CursorLast(c)
    IN  [checked_depth |-> cd, last_ord |-> lo, cur |-> c,
         out |-> IF item.some THEN Value(item) ELSE Absent,
         calls |-> Append(cs, CallOf("last", 0)), steps |-> 0]

\* the jump branch without its reset
NthJumpNoReset(cd, lo, c, depth) == NthLast(cd, lo, c, <<>>)

\* the jump branch recording the depth it reached in checked_depth
NthJumpAdvances(cd, lo, c, depth) ==
    NthLast(depth + 1, lo, CursorReset(depth), <<CallOf("reset", depth)>>)

\* the jump branch recording the order of the record it returns in last_ord
NthJumpTracksOrd(cd, lo, c, depth) ==
    LET r == NthLast(cd, lo, CursorReset(depth), <<CallOf("reset", depth)>>)
    IN  IF r.out.kind = "value" THEN [r EXCEPT !.last_ord = r.out.ord] ELSE r

\* the jump branch testing the record it returns against last_ord
NthJumpChecked(cd, lo, c, depth) ==
    LET r == NthLast(cd, lo, CursorReset(depth), <<CallOf("reset", depth)>>)
    IN  IF r.out.kind = "value" /\ OrderViolated(r.out.ord, lo)
        THEN [r EXCEPT !.out = Fault("order")]
        ELSE r

\* the jump branch: self.iter.reset(depth), then the tail
NthJump(cd, lo, c, depth) ==
    NthLast(cd, lo, CursorReset(depth), <<CallOf("reset", depth)>>)

\* the rewind branch: reset(checked_depth), the loop, then the tail
NthRewind(cd, lo, c, depth) ==
    LET c1 == CursorReset(cd)
        cs1 == <<CallOf("reset", cd)>>
    IN  IF SubOverflows(cd, depth)
        THEN [checked_depth |-> cd, last_ord |-> lo, cur |-> c1,
              out |-> Fault("overflow"), calls |-> cs1, steps |-> 0]
        ELSE LET w == WalkFrom(c1, lo, 0, RangeEnd(cd, depth), cs1)
             IN  IF w.fault # ""
                 THEN [checked_depth |-> cd, last_ord |-> w.last_ord, cur |-> w.cur,
                       out |-> Fault(w.fault), calls |-> w.calls, steps |-> w.steps]
                 ELSE [NthLast(cd, w.last_ord, w.cur, w.calls) EXCEPT !.steps = w.steps]

\* nth repositioning the cursor before its size test
NthRunResetsFirst(cd, lo, c, depth) ==
    IF OutOfRange(depth)
    THEN [checked_depth |-> cd, last_ord |-> lo, cur |-> CursorReset(depth), out |-> Absent,
          calls |-> <<CallOf("reset", depth)>>, steps |-> 0]
    ELSE IF TakesJump(cd, depth)
    THEN NthJump(cd, lo, c, depth)
    ELSE NthRewind(cd, lo, c, depth)

\* GlobalContractState::nth(depth) on the accessor (cd, lo) with its cursor at c
NthRun(cd, lo, c, depth) ==
    IF OutOfRange(depth)
    THEN [checked_depth |-> cd, last_ord |-> lo, cur |-> c, out |-> Absent,
          calls |-> <<>>, steps |-> 0]
    ELSE IF TakesJump(cd, depth)
    THEN NthJump(cd, lo, c, depth)
    ELSE NthRewind(cd, lo, c, depth)

\* ---------------------------------------------------------------- state machine
\* Histories of n records over the example orders; a record's value names it
\* (the oldest record has value 1, the newest value n).
HistoriesOf(n) ==
    { [k \in 1..n |-> [ord |-> f[k], val |-> n + 1 - k]] : f \in [1..n -> ExampleOrds] }

Histories == UNION { HistoriesOf(n) : n \in 0..MaxLen }

DepthArgs == 0..(MaxLen + MaxExtra)

\* A cursor that keeps the StateCursor contract: it reports the records it
\* holds and surfaces them in strictly decreasing GlobalOrd.
Conforming ==
    /\ reported = Len(records)
    /\ \A i \in 1..(Len(records) - 1) :
          GlobalOrdCmp(records[i + 1].ord, records[i].ord) = "Less"

Init ==
    /\ records \in Histories
    /\ reported \in Len(records)..(Len(records) + MaxExtra)
    /\ overflow_checks \in BOOLEAN
    /\ cur = 0
    /\ phase = "new"
    /\ checked_depth = 0
    /\ last_ord = genesis(0)
    /\ depth_arg = -1
    /\ out = Idle
    /\ calls = <<>>
    /\ prev_out = Idle
    /\ walk = 0
    /\ ascending = TRUE
    /\ faulted = FALSE
    /\ validated = 0
    /\ size_out = -1
    /\ ord_in = <<>>
    /\ ord_out = <<>>

\* GlobalContractState::from(iter)
From ==
    /\ phase = "new"
    /\ LET r == FromRun(cur)
       IN  /\ checked_depth' = r.checked_depth
           /\ last_ord' = r.last_ord
           /\ cur' = r.cur
           /\ calls' = r.calls
           /\ validated' = r.steps
    /\ phase' = "ready"
    /\ UNCHANGED <<records, reported, overflow_checks, depth_arg, out, prev_out,
                   walk, ascending, faulted, size_out, ord_in, ord_out>>

\* GlobalContractState::nth(depth); a panic leaves the fields as they were
\* when it was raised.
Nth(depth) ==
    /\ phase = "ready"
    /\ LET r == NthRun(checked_depth, last_ord, cur, depth)
       IN  /\ checked_depth' = r.checked_depth
           /\ last_ord' = r.last_ord
           /\ cur' = r.cur
           /\ calls' = r.calls
           /\ out' = r.out
           /\ faulted' = (faulted \/ r.out.kind = "fault")
           /\ validated' = validated + r.steps
    /\ depth_arg' = depth
    /\ prev_out' = out
    /\ walk' = IF walk = depth THEN depth + 1 ELSE -1
    /\ ascending' = (ascending /\ depth > depth_arg)
    /\ UNCHANGED <<records, reported, overflow_checks, phase, size_out, ord_in, ord_out>>

\* GlobalContractState::size(): delegates to the cursor
Size ==
    /\ phase = "ready"
    /\ size_out' = CursorSize
    /\ UNCHANGED <<records, reported, overflow_checks, cur, phase, checked_depth,
                   last_ord, depth_arg, out, calls, prev_out, walk, ascending,
                   faulted, validated, ord_in, ord_out>>

Next == From \/ Size \/ \E depth \in DepthArgs : Nth(depth)

Spec == Init /\ [][Next]_vars

\* ---------------------------------------------------------------- ordering harness
Anchors == { WitnessAnchor(r, w) : r \in 0..MaxRank, w \in 0..MaxId }

GlobalOrds ==
    { genesis(i) : i \in 0..MaxIdx }
        \cup { with_anchor(A, i) : A \in Anchors, i \in 0..MaxIdx }

InitOrd ==
    /\ ord_in \in GlobalOrds \X GlobalOrds \X GlobalOrds
    /\ ord_out = <<>>
    /\ records = <<>>
    /\ reported = 0
    /\ overflow_checks = FALSE
    /\ cur = 0
    /\ phase = "ord"
    /\ checked_depth = 0
    /\ last_ord = genesis(0)
    /\ depth_arg = -1
    /\ out = Idle
    /\ calls = <<>>
    /\ prev_out = Idle
    /\ walk = 0
    /\ ascending = TRUE
    /\ faulted = FALSE
    /\ validated = 0
    /\ size_out = -1

\* a.cmp(&b), b.cmp(&a), b.cmp(&c), a.cmp(&c) on the triple (a, b, c), and
\* WitnessAnchor::cmp on the anchors of a and b (anchor fields of an
\* unanchored value read as rank 0, witness id 0)
Compare ==
    /\ phase = "ord"
    /\ ord_out = <<>>
    /\ ord_out' = [ab |-> GlobalOrdCmp(ord_in[1], ord_in[2]),
                   ba |-> GlobalOrdCmp(ord_in[2], ord_in[1]),
                   bc |-> GlobalOrdCmp(ord_in[2], ord_in[3]),
                   ac |-> GlobalOrdCmp(ord_in[1], ord_in[3]),
                   wab |-> WitnessAnchorCmp(AnchorOf(ord_in[1]), AnchorOf(ord_in[2]))]
    /\ UNCHANGED <<records, reported, overflow_checks, cur, phase, checked_depth,
                   last_ord, depth_arg, out, calls, prev_out, walk, ascending,
                   faulted, validated, size_out, ord_in>>

NextOrd == Compare

SpecOrd == InitOrd /\ [][NextOrd]_vars

\* ---------------------------------------------------------------- claims
\* what a caller observes of an outcome: a value, absence or a fault
Observed(o) == [kind |-> o.kind, val |-> o.val]

\* nth(depth) on an accessor freshly constructed over the same history
FreshOutcome(depth) ==
    LET f == FromRun(0)
    IN  NthRun(f.checked_depth, f.last_ord, f.cur, depth).out

\* C1: on a conforming cursor, nth(depth) with 0 <= depth < size() returns the
\* value of the record exactly depth steps back from the newest.
C1_NthReturnsRecordAtDepth ==
    (Conforming /\ phase = "ready" /\ depth_arg >= 0 /\ depth_arg < reported)
        => (out.kind = "value" /\ out.val = records[depth_arg + 1].val)

\* C2: on a conforming cursor, the calls nth(0), nth(1), ..., nth(size-1) made
\* in that order on a fresh accessor never fault, and the GlobalOrd of the
\* records returned strictly decreases from call to call.
C2_SequentialWalkNoFault ==
    (Conforming /\ phase = "ready" /\ walk >= 1 /\ walk <= reported)
        => /\ out.kind # "fault"
           /\ walk >= 2 => GlobalOrdCmp(out.ord, prev_out.ord) = "Less"

C4_OutOfRangeIsAbsent ==
    (phase = "ready" /\ depth_arg >= 0 /\ depth_arg >= reported)
        => (out.kind = "none" /\ out.fault = "")

\* C4 witness: an out-of-range call on a non-empty history, made after an
\* earlier call had faulted, returned absence.
C4_Witness ==
    /\ phase = "ready" /\ depth_arg >= reported /\ depth_arg >= 0 /\ out.kind = "none"
    /\ faulted /\ reported >= 2

\* C5: in a walk of nth calls at increasing depths from a fresh accessor, a
\* record whose GlobalOrd is not strictly less than that of the record
\* delivered before it is never returned as a value (the call faults).
C5_OutOfOrderRecordFaults ==
    (phase = "ready" /\ ascending /\ prev_out.kind = "value" /\ out.kind = "value")
        => GlobalOrdCmp(out.ord, prev_out.ord) = "Less"

\* C6: on an empty history (size() = 0, prev() and last() yield nothing), from
\* does not fault and sets last_ord to genesis(0), and every nth(0) returns
\* absence without faulting.
C6_EmptyHistory ==
    (records = <<>> /\ reported = 0 /\ phase = "ready")
        => /\ last_ord = [witness_anchor |-> NoAnchor, idx |-> 0]
           /\ ~faulted
           /\ depth_arg = 0 => out.kind = "none"

\* C6 witness: a second nth(0) on an empty history has returned absence.
C6_Witness ==
    /\ records = <<>> /\ reported = 0 /\ phase = "ready"
    /\ depth_arg = 0 /\ out.kind = "none" /\ prev_out.kind = "none"

\* C7: when size() reports more records than the cursor holds, nth(depth) for a
\* depth below the reported size that the cursor cannot supply faults; it
\* returns neither a value nor absence.
C7_OverReportFaults ==
    (phase = "ready" /\ depth_arg >= Len(records) /\ depth_arg < reported)
        => out.kind = "fault"

Reverse(o) == IF o = "Less" THEN "Greater" ELSE IF o = "Greater" THEN "Less" ELSE "Equal"

\* C8: GlobalOrd::cmp is a strict total order consistent with structural
\* equality: cmp(a,b) = Equal exactly when anchor and idx are equal, cmp(a,b) is
\* the reverse of cmp(b,a), and a < b, b < c imply a < c.
C8_TotalOrder ==
    (phase = "ord" /\ ord_out # <<>>)
        => LET a == ord_in[1]
               b == ord_in[2]
           IN  /\ ord_out.ab \in {"Less", "Equal", "Greater"}
               /\ (ord_out.ab = "Equal")
                     <=> (a.witness_anchor = b.witness_anchor /\ a.idx = b.idx)
               /\ ord_out.ab = Reverse(ord_out.ba)
               /\ (ord_out.ab = "Less" /\ ord_out.bc = "Less") => ord_out.ac = "Less"

\* C8 witness: a chain a < b < c over three different anchors states.
C8_Witness ==
    /\ phase = "ord" /\ ord_out # <<>>
    /\ ord_out.ab = "Less" /\ ord_out.bc = "Less" /\ ord_out.ac = "Less"
    /\ ~ord_in[1].witness_anchor.some /\ ord_in[2].witness_anchor.some
    /\ ord_in[2].witness_anchor = ord_in[3].witness_anchor

\* C9: genesis(i) compares strictly less than with_anchor(A, j) for every
\* anchor A and all idx i, j, also when i > j.
C9_GenesisPrecedence ==
    (phase = "ord" /\ ord_out # <<>>)
        => \A i, j \in 0..MaxIdx : \A A \in Anchors :
              (ord_in[1] = genesis(i) /\ ord_in[2] = with_anchor(A, j))
                  => (ord_out.ab = "Less" /\ ord_out.ba = "Greater")

\* C9 witness: genesis(i) against with_anchor(A, j) with i > j was compared.
C9_Witness ==
    /\ phase = "ord" /\ ord_out # <<>>
    /\ ~ord_in[1].witness_anchor.some /\ ord_in[2].witness_anchor.some
    /\ ord_in[1].idx > ord_in[2].idx
    /\ ord_out.ab = "Less"

\* A1 < A2: the lesser rank, or equal rank and the lesser witness id
AnchorLess(x, y) ==
    \/ x.witness_ord < y.witness_ord
    \/ (x.witness_ord = y.witness_ord /\ x.witness_id < y.witness_id)

\* C10: for anchors A1 < A2 and all idx i, j, with_anchor(A1, i) compares
\* strictly less than with_anchor(A2, j): idx never overrides the anchor order.
C10_AnchorDominance ==
    (phase = "ord" /\ ord_out # <<>>)
        => \A i, j \in 0..MaxIdx : \A A1, A2 \in Anchors :
              (AnchorLess(A1, A2) /\ ord_in[1] = with_anchor(A1, i)
                                  /\ ord_in[2] = with_anchor(A2, j))
                  => (ord_out.ab = "Less" /\ ord_out.ba = "Greater")

\* C10 witness: anchors tied on rank, ordered by witness id, with i > j.
C10_Witness ==
    /\ phase = "ord" /\ ord_out # <<>>
    /\ ord_in[1].witness_anchor.some /\ ord_in[2].witness_anchor.some
    /\ ord_in[1].witness_anchor.witness_ord = ord_in[2].witness_anchor.witness_ord
    /\ ord_in[1].witness_anchor.witness_id < ord_in[2].witness_anchor.witness_id
    /\ ord_in[1].idx > ord_in[2].idx
    /\ ord_out.ab = "Less"

\* C11: two GlobalOrd values with equal witness_anchor (the same anchor A, or
\* both unanchored) order as their idx values do: for i < j,
\* with_anchor(A, i) < with_anchor(A, j) and genesis(i) < genesis(j).
C11_SameAnchorTieBreak ==
    (phase = "ord" /\ ord_out # <<>>)
        => \A i, j \in 0..MaxIdx :
              i < j =>
                 /\ (ord_in[1] = genesis(i) /\ ord_in[2] = genesis(j))
                       => (ord_out.ab = "Less" /\ ord_out.ba = "Greater")
                 /\ \A A \in Anchors :
                       (ord_in[1] = with_anchor(A, i) /\ ord_in[2] = with_anchor(A, j))
                           => (ord_out.ab = "Less" /\ ord_out.ba = "Greater")

\* C11 witness: with_anchor(A, i) against with_anchor(A, j), i < j, was compared.
C11_Witness ==
    /\ phase = "ord" /\ ord_out # <<>>
    /\ ord_in[1].witness_anchor.some
    /\ ord_in[1].witness_anchor = ord_in[2].witness_anchor
    /\ ord_in[1].idx < ord_in[2].idx
    /\ ord_out.ab = "Less"

\* C12: WitnessAnchor::cmp is the lexicographic order on (rank, witness id):
\* differing ranks decide whatever the witness ids, equal ranks leave the
\* witness ids to decide, and the result is Equal only when both are equal.
C12_AnchorLexicographic ==
    (phase = "ord" /\ ord_out # <<>>)
        => LET x == ord_in[1].witness_anchor
               y == ord_in[2].witness_anchor
           IN  /\ x.witness_ord < y.witness_ord => ord_out.wab = "Less"
               /\ x.witness_ord > y.witness_ord => ord_out.wab = "Greater"
               /\ (x.witness_ord = y.witness_ord /\ x.witness_id < y.witness_id)
                     => ord_out.wab = "Less"
               /\ (x.witness_ord = y.witness_ord /\ x.witness_id > y.witness_id)
                     => ord_out.wab = "Greater"
               /\ (ord_out.wab = "Equal")
                     <=> (x.witness_ord = y.witness_ord /\ x.witness_id = y.witness_id)

\* C12 witness: two anchors whose ranks and witness ids order oppositely.
C12_Witness ==
    /\ phase = "ord" /\ ord_out # <<>>
    /\ ord_in[1].witness_anchor.some /\ ord_in[2].witness_anchor.some
    /\ ord_in[1].witness_anchor.witness_ord < ord_in[2].witness_anchor.witness_ord
    /\ ord_in[1].witness_anchor.witness_id > ord_in[2].witness_anchor.witness_id
    /\ ord_out.wab = "Less"

\* C13: from calls prev() once and then reset(0) once and yields
\* checked_depth = 1, last_ord the GlobalOrd of the newest record of a
\* non-empty history, and a cursor whose next last() yields the newest record.
C13_ConstructionPostState ==
    (phase = "ready" /\ depth_arg = -1)
        => /\ calls = <<CallOf("prev", 0), CallOf("reset", 0)>>
           /\ checked_depth = 1
           /\ Len(records) >= 1
                 => /\ last_ord = records[1].ord
                    /\ CursorLast(cur) = SomeItem(records[1])

\* C13 witness: an accessor just constructed over a history of several
\* records whose newest is anchored.
C13_Witness ==
    /\ phase = "ready" /\ depth_arg = -1
    /\ Len(records) >= 2
    /\ records[1].ord.witness_anchor.some
    /\ last_ord = records[1].ord

\* C14: in every state reached without a fault, checked_depth is the number of
\* records read through prev() and accepted so far, for empty and non-empty
\* histories.
C14_CheckedDepthCountsValidated ==
    (phase = "ready" /\ ~faulted) => checked_depth = validated

\* C14 amended: the same for a cursor that holds at least one record.
C14_CheckedDepthCountsValidatedNonEmpty ==
    (phase = "ready" /\ ~faulted /\ Len(records) >= 1) => checked_depth = validated

\* C14 witness: a non-empty history after a call that returned a record.
C14_Witness ==
    /\ phase = "ready" /\ ~faulted /\ Len(records) >= 2
    /\ depth_arg >= 1 /\ out.kind = "value"
    /\ checked_depth = validated

\* C15: nth(depth) with checked_depth <= depth < size() calls reset(depth) once
\* and last() once and nothing else, leaves checked_depth and last_ord as they
\* were, and returns what last() yields after reset(depth).
C15_JumpPathFrame ==
    [][\A d \in DepthArgs :
          (Nth(d) /\ d >= checked_depth /\ d < reported)
              => /\ calls' = <<CallOf("reset", d), CallOf("last", 0)>>
                 /\ checked_depth' = checked_depth
                 /\ last_ord' = last_ord
                 /\ out' = LET item == CursorLast(CursorReset(d))
                           IN  IF item.some THEN Value(item) ELSE Absent]_vars

\* C15 witness: a jump to depth 2 or more has returned a record.
C15_Witness ==
    /\ phase = "ready" /\ depth_arg >= 2 /\ depth_arg >= checked_depth
    /\ depth_arg < reported
    /\ calls = <<CallOf("reset", depth_arg), CallOf("last", 0)>>
    /\ out.kind = "value"

\* C16: a call that takes the jump path does not fault and returns the record
\* the cursor holds at that depth, in order or not; an ordering fault comes
\* only from a call that walked the cursor with prev().
C16_JumpTrustGap ==
    [][\A d \in DepthArgs :
          /\ (Nth(d) /\ d >= checked_depth /\ d < reported)
                => /\ out'.kind # "fault"
                   /\ faulted' = faulted
                   /\ d < Len(records)
                         => /\ out'.kind = "value"
                            /\ out'.val = records[d + 1].val
                            /\ out'.ord = records[d + 1].ord
          /\ (Nth(d) /\ out'.fault = "order")
                => \E i \in 1..Len(calls') : calls'[i].op = "prev"]_vars

\* C16 witness: on a cursor that is out of order, two jumps at increasing
\* depths have returned records that are out of order, with no fault so far.
C16_Witness ==
    /\ phase = "ready" /\ ~faulted /\ ascending
    /\ prev_out.kind = "value" /\ out.kind = "value"
    /\ GlobalOrdCmp(out.ord, prev_out.ord) # "Less"

\* C17: whenever nth takes the rewind branch (depth < checked_depth and
\* depth < size()), depth - checked_depth in u32 neither aborts nor wraps, and
\* the call makes at most size() prev() calls.
C17_RewindCountWellDefined ==
    (phase = "ready" /\ depth_arg >= 0 /\ depth_arg < checked_depth /\ depth_arg < reported)
        => /\ out.fault # "overflow"
           /\ LessU32(RangeEnd(checked_depth, depth_arg), ToU32(reported + 1))
           /\ Cardinality({ i \in 1..Len(calls) : calls[i].op = "prev" }) <= reported

\* C18: after from, no nth or size call changes checked_depth: it is 1 in
\* every state, and nth takes the rewind branch exactly for depth 0 on a
\* non-empty history.
C18_CheckedDepthConstant ==
    phase = "ready"
        => /\ checked_depth = 1
           /\ \A d \in DepthArgs :
                 (~OutOfRange(d) /\ ~TakesJump(checked_depth, d)) <=> (d = 0 /\ reported > 0)

\* C18 witness: after a faulting call, a later call that returned a record and
\* a size call, checked_depth is 1.
C18_Witness ==
    /\ phase = "ready" /\ faulted /\ size_out >= 2
    /\ depth_arg >= 1 /\ out.kind = "value"
    /\ checked_depth = 1

\* C19: no nth call raises last_ord: after any call it is what it was or
\* strictly less, and never above the value recorded at construction.
C19_LastOrdNeverIncreases ==
    [][phase = "ready"
          => /\ (last_ord' = last_ord \/ GlobalOrdCmp(last_ord', last_ord) = "Less")
             /\ GlobalOrdCmp(last_ord', FromRun(0).last_ord) \in {"Less", "Equal"}]_vars

\* C19 witness: last_ord has moved below the value recorded at construction.
C19_Witness ==
    /\ phase = "ready"
    /\ GlobalOrdCmp(last_ord, FromRun(0).last_ord) = "Less"

\* C20: nth(depth) with depth >= size() makes no cursor call and leaves
\* checked_depth, last_ord and the cursor position as they were, so every
\* later nth call has the outcome it would have had without it.
C20_OutOfRangeNoEffect ==
    [][\A d \in DepthArgs :
          (Nth(d) /\ d >= reported)
              => /\ calls' = <<>>
                 /\ checked_depth' = checked_depth
                 /\ last_ord' = last_ord
                 /\ cur' = cur
                 /\ \A e \in DepthArgs :
                       NthRun(checked_depth', last_ord', cur', e).out
                           = NthRun(checked_depth, last_ord, cur, e).out]_vars

\* C20 witness: an out-of-range call made while the cursor sat where an
\* earlier call on a non-empty history had left it.
C20_Witness ==
    /\ phase = "ready" /\ reported >= 1 /\ depth_arg >= reported
    /\ calls = <<>> /\ out.kind = "none" /\ cur >= 3

====
